---- MODULE Spec2Model ----
(***************************************************************************)
(* The parsing expression evaluator of go-peg (ope.go): the operators and  *)
(* the context they thread through the recursion.                          *)
(*                                                                         *)
(* The Go recursion is unfolded into a machine with an explicit call       *)
(* stack.  Every step is taken by the activation on top of the stack: it   *)
(* either calls parse on a child (a new activation is pushed) or returns   *)
(* (the activation is removed and its results are left in ret).            *)
(*                                                                         *)
(* Strings are sequences of one-character strings, positions are the Go    *)
(* byte offsets (0-based), so s[p] of the source is s[p + 1] here.         *)
(*                                                                         *)
(* Contexts are the ones the tests build, with or without a whitespaceOpe  *)
(* installed: no tracer and no wordOpe, so the tracer calls of parse and   *)
(* the word check of literalString are skipped by the source as well.      *)
(*                                                                         *)
(* Definitions marked "faulty variant" are not part of the model: each is  *)
(* the definition that follows it with one plausible slip, and the         *)
(* properties at the end are expected to tell the two apart.               *)
(***************************************************************************)
EXTENDS Integers, Sequences, FiniteSets, TLC

\* Longest input string that is enumerated.
MaxLen == 3

\* The bytes inputs are made of.
Alphabet == {"a", "b", " "}

\* Byte order of the characters that occur in inputs and character classes.
Ord(ch) == CASE ch = " " -> 32 [] ch = "-" -> 45 [] ch = "a" -> 97 [] ch = "b" -> 98

(***************************************************************************)
(* Operators.  One record shape for every variant: kind, the string of a   *)
(* literal or a character class, and the child operators.                  *)
(***************************************************************************)
Node(kind, str, opes) == [kind |-> kind, str |-> str, opes |-> opes]

SeqCore(opes) == Node("Seq", <<>>, opes)
ChoCore(opes) == Node("Cho", <<>>, opes)
Zom(ope) == Node("Zom", <<>>, <<ope>>)
Oom(ope) == Node("Oom", <<>>, <<ope>>)
Opt(ope) == Node("Opt", <<>>, <<ope>>)
Apd(ope) == Node("Apd", <<>>, <<ope>>)
Npd(ope) == Node("Npd", <<>>, <<ope>>)
Lit(lit) == Node("Lit", lit, <<>>)
Cls(chars) == Node("Cls", chars, <<>>)
Dot == Node("Dot", <<>>, <<>>)
Tok(ope) == Node("Tok", <<>>, <<ope>>)
Ign(ope) == Node("Ign", <<>>, <<ope>>)
Wsp(ope) == Node("Wsp", <<>>, <<Ign(ope)>>)

\* The nil operator (context.whitespaceOpe when none is installed).
NilOpe == Node("nil", <<>>, <<>>)

\* opeBase.Label: the name of the operator's Go type.
Label(o) ==
    CASE o.kind = "Seq" -> "sequence"
      [] o.kind = "Cho" -> "prioritizedChoice"
      [] o.kind = "Zom" -> "zeroOrMore"
      [] o.kind = "Oom" -> "oneOrMore"
      [] o.kind = "Opt" -> "option"
      [] o.kind = "Apd" -> "andPredicate"
      [] o.kind = "Npd" -> "notPredicate"
      [] o.kind = "Lit" -> "literalString"
      [] o.kind = "Cls" -> "characterClass"
      [] o.kind = "Dot" -> "anyCharacter"
      [] o.kind = "Tok" -> "tokenBoundary"
      [] o.kind = "Ign" -> "ignore"
      [] o.kind = "Wsp" -> "whitespace"

(***************************************************************************)
(* Errors.  A nil error, an OperatorError and a SequenceError share one    *)
(* record shape.  Got is always the input s; Line and Col are lineInfo of  *)
(* the position, so the position stands for both.                          *)
(***************************************************************************)
NilErr == [kind |-> "nil", expected |-> <<>>, pos |-> 0, length |-> 0, errs |-> <<>>]

OperatorError(expected, p, length) ==
    [kind |-> "OperatorError", expected |-> expected, pos |-> p,
     length |-> length, errs |-> <<>>]

SequenceError(errs) ==
    [kind |-> "SequenceError", expected |-> <<>>, pos |-> 0, length |-> 0,
     errs |-> errs]

(***************************************************************************)
(* Semantic values.  SS is the input and is left out.                      *)
(***************************************************************************)
Token(p, str) == [Pos |-> p, S |-> str]

Values == [Vs |-> <<>>, Ts |-> <<>>, Pos |-> 0, S |-> <<>>, Choice |-> 0]

VARIABLES
    s,      \* the input string
    c,      \* the context: errorPos, svStack, inToken, whitespaceOpe, inWhitespace
    sv,     \* the Values the caller of the outermost parse passes in
    stack,  \* the Go call stack: one activation per parseCore in progress
    ret     \* the results (l, err) of the parse call that returned last

vars == <<s, c, sv, stack, ret>>

\* s[p : p+l]
Slice(p, l) == SubSeq(s, p + 1, p + l)

(***************************************************************************)
(* context                                                                 *)
(***************************************************************************)
setErrorPos(cc, p) == IF cc.errorPos < p THEN [cc EXCEPT !.errorPos = p] ELSE cc

push(cc) == [cc EXCEPT !.svStack = Append(@, Values)]

\* Faulty variant of pop: the slice is not cut.
pop_keep(cc) == cc

pop(cc) == [cc EXCEPT !.svStack = SubSeq(@, 1, Len(@) - 1)]

(***************************************************************************)
(* A *Values is either the caller's sv (0) or the frame c.push() returned, *)
(* named by its place in svStack.  A pointer into svStack stays readable   *)
(* after c.pop(): the slice is cut, the element is not cleared.            *)
(***************************************************************************)
World(nsv, cc) == [sv |-> nsv, c |-> cc]

Frame(w, v) == IF v = 0 THEN w.sv ELSE w.c.svStack[v]

SetFrame(w, v, f) ==
    IF v = 0 THEN [w EXCEPT !.sv = f] ELSE [w EXCEPT !.c.svStack[v] = f]

Now == World(sv, c)

(***************************************************************************)
(* Activations.  o, p, v are the arguments of parseCore; the other fields  *)
(* are its locals: pc is the place it was left at, l the length so far, i  *)
(* the place in o.opes, id/errs the locals of prioritizedChoice, chv the   *)
(* frame it pushed, save* the snapshots.  entry is a history field that no *)
(* operator reads: what the caller could see when it made the call.        *)
(***************************************************************************)
Snapshot(w, v) ==
    [Vs |-> Frame(w, v).Vs, Ts |-> Frame(w, v).Ts, errorPos |-> w.c.errorPos,
     inToken |-> w.c.inToken, depth |-> Len(w.c.svStack)]

Activation(o, p, v, w) ==
    [o |-> o, p |-> p, v |-> v, pc |-> "start", l |-> 0, i |-> 0, id |-> 0,
     errs |-> <<>>, chv |-> 0, saveVs |-> <<>>, saveTs |-> <<>>,
     saveErrorPos |-> 0, entry |-> Snapshot(w, v)]

Top == stack[Len(stack)]

Running(kind) == stack # <<>> /\ Top.o.kind = kind

\* ope.parse(s, q, v, c, d): the activation a calls parse on child.
Call(a, child, q, v, w) ==
    /\ stack' = Append([stack EXCEPT ![Len(stack)] = a], Activation(child, q, v, w))
    /\ sv' = w.sv
    /\ c' = w.c
    /\ UNCHANGED <<s, ret>>

\* parse returns (l, err) to its caller.
Return(l, err, w) ==
    /\ stack' = SubSeq(stack, 1, Len(stack) - 1)
    /\ ret' = [o |-> Top.o, p |-> Top.p, v |-> Top.v, l |-> l, err |-> err,
               entry |-> Top.entry]
    /\ sv' = w.sv
    /\ c' = w.c
    /\ UNCHANGED s

(***************************************************************************)
(* Sequence                                                                *)
(***************************************************************************)
sequence_parseCore ==
    /\ Running("Seq")
    /\ LET a == Top
           opes == a.o.opes
       IN  IF a.pc = "start"
           THEN IF opes = <<>>
                THEN Return(0, NilErr, Now)
                ELSE Call([a EXCEPT !.pc = "child", !.i = 1, !.l = 0],
                          opes[1], a.p, a.v, Now)
           ELSE IF ret.err # NilErr
                THEN Return(0, ret.err, Now)
                ELSE LET l == a.l + ret.l
                     IN  IF a.i = Len(opes)
                         THEN Return(l, NilErr, Now)
                         ELSE Call([a EXCEPT !.i = a.i + 1, !.l = l],
                                   opes[a.i + 1], a.p + l, a.v, Now)

(***************************************************************************)
(* Prioritized Choice                                                      *)
(***************************************************************************)
\* Faulty variant of choiceSuccess: the tokens are not spliced.
choiceSuccess_noTs(v, chv, id) ==
    [v EXCEPT !.Vs = v.Vs \o chv.Vs, !.Pos = chv.Pos, !.S = chv.S, !.Choice = id]

\* The winning alternative's frame chv is spliced onto v.
choiceSuccess(v, chv, id) ==
    [v EXCEPT !.Vs = v.Vs \o chv.Vs, !.Pos = chv.Pos, !.S = chv.S,
              !.Choice = id, !.Ts = v.Ts \o chv.Ts]

prioritizedChoice_parseCore ==
    /\ Running("Cho")
    /\ LET a == Top
           opes == a.o.opes
       IN  IF a.pc = "start"
           THEN IF opes = <<>>
                THEN Return(0, SequenceError(<<>>), Now)
                ELSE LET w == World(sv, push(c))
                         chv == Len(w.c.svStack)
                     IN  Call([a EXCEPT !.pc = "child", !.i = 1, !.id = 0,
                                        !.errs = <<>>, !.chv = chv],
                              opes[1], a.p, chv, w)
           ELSE LET chv == Frame(Now, a.chv)
                    w == World(sv, pop(c))
                IN  IF ret.err = NilErr
                    THEN Return(ret.l, NilErr,
                                SetFrame(w, a.v, choiceSuccess(Frame(w, a.v), chv, a.id)))
                    ELSE LET errs == Append(a.errs, ret.err)
                         IN  IF a.i = Len(opes)
                             THEN Return(0, SequenceError(errs), w)
                             ELSE LET w2 == World(w.sv, push(w.c))
                                      chv2 == Len(w2.c.svStack)
                                  IN  Call([a EXCEPT !.i = a.i + 1, !.id = a.id + 1,
                                                     !.errs = errs, !.chv = chv2],
                                           opes[a.i + 1], a.p, chv2, w2)

(***************************************************************************)
(* Zero or More, One or More                                               *)
(***************************************************************************)
\* Faulty variant of more: off by one.
more_early(p, l) == p + l + 1 < Len(s)

\* The loop condition: p+l < len(s).
more(p, l) == p + l < Len(s)

\* Faulty variant of iteration: errorPos is saved per iteration as well.
iteration_saveAll(a, w) ==
    [a EXCEPT !.saveVs = Frame(w, a.v).Vs, !.saveTs = Frame(w, a.v).Ts,
              !.saveErrorPos = w.c.errorPos]

\* saveVs := v.Vs; saveTs := v.Ts at the head of an iteration.
iteration(a, w) ==
    [a EXCEPT !.saveVs = Frame(w, a.v).Vs, !.saveTs = Frame(w, a.v).Ts]

\* Faulty variant of restore: v.Ts is not put back.
restore_noTs(a, w) ==
    [SetFrame(w, a.v, [Frame(w, a.v) EXCEPT !.Vs = a.saveVs])
        EXCEPT !.c.errorPos = a.saveErrorPos]

\* v.Vs = saveVs; v.Ts = saveTs; c.errorPos = saveErrorPos
restore(a, w) ==
    [SetFrame(w, a.v, [Frame(w, a.v) EXCEPT !.Vs = a.saveVs, !.Ts = a.saveTs])
        EXCEPT !.c.errorPos = a.saveErrorPos]

\* for p+l < len(s) { ... }: the head of the loop, with l bytes matched.
loop(a, l) ==
    IF more(a.p, l)
    THEN Call(iteration([a EXCEPT !.pc = "loop", !.l = l], Now),
              a.o.opes[1], a.p + l, a.v, Now)
    ELSE Return(l, NilErr, Now)

zeroOrMore_parseCore ==
    /\ Running("Zom")
    /\ LET a == Top
       IN  IF a.pc = "start"
           THEN loop([a EXCEPT !.saveErrorPos = c.errorPos], 0)
           ELSE IF ret.err # NilErr
                THEN Return(a.l, NilErr, restore(a, Now))
                ELSE loop(a, a.l + ret.l)

oneOrMore_parseCore ==
    /\ Running("Oom")
    /\ LET a == Top
       IN  CASE a.pc = "start" ->
                    Call([a EXCEPT !.pc = "first"], a.o.opes[1], a.p, a.v, Now)
             [] a.pc = "first" ->
                    IF ret.err # NilErr
                    THEN Return(ret.l, ret.err, Now)
                    ELSE loop([a EXCEPT !.saveErrorPos = c.errorPos], ret.l)
             [] a.pc = "loop" ->
                    IF ret.err # NilErr
                    THEN Return(a.l, NilErr, restore(a, Now))
                    ELSE loop(a, a.l + ret.l)

(***************************************************************************)
(* Option                                                                  *)
(***************************************************************************)
option_parseCore ==
    /\ Running("Opt")
    /\ LET a == Top
       IN  IF a.pc = "start"
           THEN Call([a EXCEPT !.pc = "child", !.saveErrorPos = c.errorPos,
                              !.saveVs = Frame(Now, a.v).Vs,
                              !.saveTs = Frame(Now, a.v).Ts],
                     a.o.opes[1], a.p, a.v, Now)
           ELSE IF ret.err # NilErr
                THEN Return(0, NilErr, restore(a, Now))
                ELSE Return(ret.l, NilErr, Now)

(***************************************************************************)
(* And Predicate, Not Predicate                                            *)
(***************************************************************************)
\* Faulty variant of andPredicateResult: the child's length is returned.
andPredicateResult_consume(chl, e) == [l |-> chl, err |-> e]

\* l = 0; return: the child's error with no length.
andPredicateResult(chl, e) == [l |-> 0, err |-> e]

andPredicate_parseCore ==
    /\ Running("Apd")
    /\ LET a == Top
       IN  IF a.pc = "start"
           THEN LET w == World(sv, push(c))
                    chv == Len(w.c.svStack)
                IN  Call([a EXCEPT !.pc = "child", !.chv = chv],
                         a.o.opes[1], a.p, chv, w)
           ELSE LET r == andPredicateResult(ret.l, ret.err)
                IN  Return(r.l, r.err, World(sv, pop(c)))

notPredicate_parseCore ==
    /\ Running("Npd")
    /\ LET a == Top
       IN  IF a.pc = "start"
           THEN LET w == World(sv, push(c))
                    chv == Len(w.c.svStack)
                IN  Call([a EXCEPT !.pc = "child", !.chv = chv,
                                   !.saveErrorPos = c.errorPos],
                         a.o.opes[1], a.p, chv, w)
           ELSE LET cc == pop(c)
                IN  IF ret.err = NilErr
                    THEN Return(0,
                                OperatorError(<< <<"Not ", Label(a.o.opes[1])>> >>,
                                              a.p, ret.l),
                                World(sv, setErrorPos(cc, a.p)))
                    ELSE Return(0, NilErr,
                                World(sv, [cc EXCEPT !.errorPos = a.saveErrorPos]))

(***************************************************************************)
(* Literal String                                                          *)
(***************************************************************************)
\* The byte comparison: no l < len(lit) with p+l == len(s) or s[p+l] != lit[l].
literalMatch(lit, p) ==
    \A l \in 0 .. Len(lit) - 1 : p + l < Len(s) /\ s[p + l + 1] = lit[l + 1]

literalString_parseCore ==
    /\ Running("Lit")
    /\ LET a == Top
           lit == a.o.str
       IN  IF a.pc = "start"
           THEN IF ~literalMatch(lit, a.p)
                THEN Return(0, OperatorError(<<lit>>, a.p, Len(lit)),
                            World(sv, setErrorPos(c, a.p)))
                ELSE IF c.inToken = FALSE /\ c.whitespaceOpe # NilOpe
                     THEN Call([a EXCEPT !.pc = "ws", !.l = Len(lit)],
                               c.whitespaceOpe, a.p + Len(lit), a.v, Now)
                     ELSE Return(Len(lit), NilErr, Now)
           ELSE IF ret.err # NilErr
                THEN Return(0, ret.err, Now)
                ELSE Return(a.l + ret.l, NilErr, Now)

(***************************************************************************)
(* Character Class                                                         *)
(***************************************************************************)
\* The scan of o.chars from index i (0-based) for the byte ch.
RECURSIVE classMatch(_, _, _)
classMatch(chars, ch, i) ==
    IF ~(i < Len(chars)) THEN FALSE
    ELSE IF i + 2 < Len(chars) /\ chars[i + 2] = "-"
         THEN \/ Ord(chars[i + 1]) <= Ord(ch) /\ Ord(ch) <= Ord(chars[i + 3])
              \/ classMatch(chars, ch, i + 3)
         ELSE \/ chars[i + 1] = ch
              \/ classMatch(chars, ch, i + 1)

characterClass_parseCore ==
    /\ Running("Cls")
    /\ LET a == Top
           chars == a.o.str
       IN  IF Len(s) - a.p < 1
           THEN Return(0, OperatorError(<<chars>>, a.p, 0),
                       World(sv, setErrorPos(c, a.p)))
           ELSE IF classMatch(chars, s[a.p + 1], 0)
                THEN Return(1, NilErr, Now)
                ELSE Return(0, OperatorError(<<chars>>, a.p, 1),
                            World(sv, setErrorPos(c, a.p)))

(***************************************************************************)
(* Any Character                                                           *)
(***************************************************************************)
\* Faulty variant of atEnd: off by one.
atEnd_offByOne(p) == Len(s) - p < 0

\* len(s)-p < 1: nothing is left to consume.
atEnd(p) == Len(s) - p < 1

anyCharacter_parseCore ==
    /\ Running("Dot")
    /\ LET a == Top
       IN  IF atEnd(a.p)
           THEN Return(0, OperatorError(<< <<"Anything">> >>, a.p, 0),
                       World(sv, setErrorPos(c, a.p)))
           ELSE Return(1, NilErr, Now)

(***************************************************************************)
(* Token Boundary                                                          *)
(***************************************************************************)
tokenBoundary_parseCore ==
    /\ Running("Tok")
    /\ LET a == Top
       IN  CASE a.pc = "start" ->
                    Call([a EXCEPT !.pc = "child"], a.o.opes[1], a.p, a.v,
                         World(sv, [c EXCEPT !.inToken = TRUE]))
             [] a.pc = "child" ->
                    LET w == World(sv, [c EXCEPT !.inToken = FALSE])
                    IN  IF ret.err = NilErr
                        THEN LET v == Frame(w, a.v)
                                 w2 == SetFrame(w, a.v,
                                          [v EXCEPT !.Ts = Append(v.Ts,
                                              Token(a.p, Slice(a.p, ret.l)))])
                             IN  IF c.whitespaceOpe # NilOpe
                                 THEN Call([a EXCEPT !.pc = "ws", !.l = ret.l],
                                           c.whitespaceOpe, a.p + ret.l, a.v, w2)
                                 ELSE Return(ret.l, NilErr, w2)
                        ELSE Return(ret.l, ret.err, w)
             [] a.pc = "ws" ->
                    IF ret.err # NilErr
                    THEN Return(0, ret.err, Now)
                    ELSE Return(a.l + ret.l, NilErr, Now)

(***************************************************************************)
(* Ignore                                                                  *)
(***************************************************************************)
\* Faulty variant of ignore_parseCore: the child is evaluated on v, not on chv.
ignore_parseCore_onParent ==
    /\ Running("Ign")
    /\ LET a == Top
       IN  IF a.pc = "start"
           THEN LET w == World(sv, push(c))
                IN  Call([a EXCEPT !.pc = "child", !.chv = Len(w.c.svStack)],
                         a.o.opes[1], a.p, a.v, w)
           ELSE Return(ret.l, ret.err, World(sv, pop(c)))

ignore_parseCore ==
    /\ Running("Ign")
    /\ LET a == Top
       IN  IF a.pc = "start"
           THEN LET w == World(sv, push(c))
                    chv == Len(w.c.svStack)
                IN  Call([a EXCEPT !.pc = "child", !.chv = chv],
                         a.o.opes[1], a.p, chv, w)
           ELSE Return(ret.l, ret.err, World(sv, pop(c)))

(***************************************************************************)
(* Whitespace                                                              *)
(***************************************************************************)
whitespace_parseCore ==
    /\ Running("Wsp")
    /\ LET a == Top
       IN  IF a.pc = "start"
           THEN IF c.inWhitespace
                THEN Return(0, NilErr, Now)
                ELSE Call([a EXCEPT !.pc = "child"], a.o.opes[1], a.p, a.v,
                          World(sv, [c EXCEPT !.inWhitespace = TRUE]))
           ELSE Return(ret.l, ret.err, World(sv, [c EXCEPT !.inWhitespace = FALSE]))

(***************************************************************************)
(* The grammars, inputs and contexts that are explored.                    *)
(***************************************************************************)
Inputs == UNION {[1 .. n -> Alphabet] : n \in 0 .. MaxLen}

\* %whitespace <- [ ]*
WS == Wsp(Zom(Cls(<<" ">>)))

WhitespaceOpes == {NilOpe, WS}

Terminals == {Lit(<<"a">>), Lit(<<"b">>), Lit(<<"a", "b">>), Cls(<<"a", "-", "b">>), Dot}

Units == Terminals \cup {Tok(Lit(<<"a">>))}

Pairs ==
    {SeqCore(<<x, y>>) : x \in Units, y \in {Lit(<<"b">>), Tok(Lit(<<"a">>))}}
    \cup {ChoCore(<<x, y>>) : x \in {Lit(<<"b">>), Lit(<<"a", "b">>), Tok(Lit(<<"a">>))},
                              y \in {Lit(<<"a">>), Tok(Lit(<<"a">>))}}

Wrap(x) == {Zom(x), Oom(x), Opt(x), Apd(x), Npd(x), Tok(x), Ign(x)}

\* The body of NUMBER in TestIgnore, over the letters: Tok(Oom([a-b])) Ign([ ]*).
NUMBER == SeqCore(<<Tok(Oom(Cls(<<"a", "-", "b">>))), Ign(Zom(Cls(<<" ">>)))>>)

Nested ==
    { NUMBER,
      ChoCore(<<SeqCore(<<Tok(Lit(<<"a">>)), Lit(<<"b">>)>>), Tok(Lit(<<"a">>))>>),
      SeqCore(<<Tok(Lit(<<"a">>)),
                ChoCore(<<Tok(Lit(<<"b">>)), Tok(Lit(<<"a">>))>>)>>),
      SeqCore(<<>>), ChoCore(<<>>),
      Zom(Opt(Lit(<<"a">>))), Zom(Npd(Lit(<<"a">>))), Oom(Zom(Lit(<<"a">>))) }

Grammars ==
    Units \cup Pairs \cup UNION {Wrap(x) : x \in Units \cup Pairs} \cup Nested
    \cup {WS, Wsp(Zom(Lit(<<" ">>)))}

NoRet ==
    [o |-> NilOpe, p |-> 0, v |-> 0, l |-> 0, err |-> NilErr,
     entry |-> Snapshot(World(Values, [errorPos |-> 0, svStack |-> <<>>,
                                       inToken |-> FALSE]), 0)]

Init ==
    /\ s \in Inputs
    /\ sv \in {Values, [Values EXCEPT !.Vs = <<"v">>]}
    /\ \E ws \in WhitespaceOpes :
          c = [errorPos |-> 0, svStack |-> <<>>, inToken |-> FALSE,
               whitespaceOpe |-> ws, inWhitespace |-> FALSE]
    /\ \E o \in Grammars, p \in 0 .. Len(s) :
          stack = <<Activation(o, p, 0, World(sv, c))>>
    /\ ret = NoRet

Next ==
    \/ sequence_parseCore
    \/ prioritizedChoice_parseCore
    \/ zeroOrMore_parseCore
    \/ oneOrMore_parseCore
    \/ option_parseCore
    \/ andPredicate_parseCore
    \/ notPredicate_parseCore
    \/ literalString_parseCore
    \/ characterClass_parseCore
    \/ anyCharacter_parseCore
    \/ tokenBoundary_parseCore
    \/ ignore_parseCore
    \/ whitespace_parseCore

Spec == Init /\ [][Next]_vars

\* A parse is one synchronous Go call chain: whenever the evaluation has a
\* next step, it takes it.
FairSpec == Spec /\ WF_vars(Next)

\* parse has returned to the caller of the outermost call.
Done == stack = <<>>

\* A parse call has just returned, to its parent or to the outermost caller.
Returned == stack = <<>> \/ Top.pc # "start"

\* The child of the activation on top has just returned to it.
Resumed(kind) == Running(kind) /\ Top.pc # "start"

\* The step returns from the activation on top.
Returns == stack' = SubSeq(stack, 1, Len(stack) - 1)

\* The step calls parse on child at position q from the activation on top.
Calls(child, q) ==
    /\ Len(stack') = Len(stack) + 1
    /\ stack'[Len(stack')].o = child
    /\ stack'[Len(stack')].p = q
    /\ stack'[Len(stack')].pc = "start"

\* The frame v after the step.
FrameAfter(v) == IF v = 0 THEN sv' ELSE c'.svStack[v]

(***************************************************************************)
(* C1.  Whenever a parse call returns, successfully or not, the SV stack   *)
(* is as deep as it was when the call was made.                            *)
(***************************************************************************)
SvStackBalanced == Returned => Len(c.svStack) = ret.entry.depth

\* A choice evaluated on the frame an And-Predicate pushed has failed.
SvStackBalancedWitness ==
    /\ Returned
    /\ ret.o.kind = "Cho"
    /\ ret.err # NilErr
    /\ ret.entry.depth = 1
    /\ Len(c.svStack) = 1

(***************************************************************************)
(* C2.  Whenever a parse call returns: with no error the length l is       *)
(* within 0 .. len(s) - p, with an error the length is 0.                  *)
(***************************************************************************)
LengthInRange ==
    Returned =>
        /\ ret.err = NilErr => 0 <= ret.l /\ ret.l <= Len(s) - ret.p
        /\ ret.err # NilErr => ret.l = 0

\* A token and the whitespace after it were consumed up to the end of s.
LengthInRangeWitness ==
    /\ Returned
    /\ c.whitespaceOpe # NilOpe
    /\ ret.o.kind = "Tok"
    /\ ret.err = NilErr
    /\ ret.p = 1
    /\ ret.l = 2
    /\ Len(s) = 3

(***************************************************************************)
(* C3.  Prioritized Choice.  When an alternative succeeds, it is the first *)
(* one that does (all before it failed), Cho returns at once with the      *)
(* alternative's length and no error, Choice is the alternative's          *)
(* zero-based index, and the frame's Vs and Ts are their values at entry   *)
(* followed by what the alternative produced.  When the last alternative   *)
(* fails, Cho returns length 0 and a SequenceError with the alternatives'  *)
(* errors in order, and the frame's Vs and Ts are as at entry.             *)
(***************************************************************************)
ChoiceStep ==
    Running("Cho") =>
        LET a == Top
            n == Len(a.o.opes)
        IN  IF a.pc = "start"
            THEN IF n = 0
                 THEN Returns /\ ret'.l = 0 /\ ret'.err = SequenceError(<<>>)
                 ELSE Calls(a.o.opes[1], a.p)
            ELSE /\ ret.o = a.o.opes[a.i] /\ ret.p = a.p
                 /\ Len(a.errs) = a.i - 1
                 /\ IF ret.err = NilErr
                    THEN /\ Returns
                         /\ ret'.l = ret.l /\ ret'.err = NilErr
                         /\ FrameAfter(a.v).Choice = a.i - 1
                         /\ FrameAfter(a.v).Vs = a.entry.Vs \o Frame(Now, a.chv).Vs
                         /\ FrameAfter(a.v).Ts = a.entry.Ts \o Frame(Now, a.chv).Ts
                    ELSE IF a.i = n
                         THEN /\ Returns
                              /\ ret'.l = 0
                              /\ ret'.err = SequenceError(Append(a.errs, ret.err))
                              /\ FrameAfter(a.v).Vs = a.entry.Vs
                              /\ FrameAfter(a.v).Ts = a.entry.Ts
                         ELSE /\ Calls(a.o.opes[a.i + 1], a.p)
                              /\ stack'[Len(stack)].errs = Append(a.errs, ret.err)
                              /\ stack'[Len(stack)].i = a.i + 1

ChoiceCorrect == [][ChoiceStep]_vars

\* The first alternative captured a token and then failed; the second won.
ChoiceCorrectWitness ==
    /\ Returned
    /\ ret.o = ChoCore(<<SeqCore(<<Tok(Lit(<<"a">>)), Lit(<<"b">>)>>), Tok(Lit(<<"a">>))>>)
    /\ ret.err = NilErr
    /\ ret.l = 1
    /\ Frame(Now, ret.v).Choice = 1
    /\ Frame(Now, ret.v).Ts = <<Token(ret.p, <<"a">>)>>
    /\ Frame(Now, ret.v).Vs = <<"v">>

(***************************************************************************)
(* C4.  The lookahead predicates.  Apd returns length 0 and its child's    *)
(* error (nil exactly when the child succeeded at p); Npd returns length 0 *)
(* and nil when the child failed at p, an OperatorError when it succeeded. *)
(* Neither changes the Vs and Ts of the frame it was called on.            *)
(***************************************************************************)
PredicateStep ==
    Resumed("Apd") \/ Resumed("Npd") =>
        LET a == Top
        IN  /\ ret.o = a.o.opes[1] /\ ret.p = a.p
            /\ Returns
            /\ ret'.l = 0
            /\ a.o.kind = "Apd" => ret'.err = ret.err
            /\ a.o.kind = "Npd" /\ ret.err # NilErr => ret'.err = NilErr
            /\ a.o.kind = "Npd" /\ ret.err = NilErr => ret'.err.kind = "OperatorError"
            /\ FrameAfter(a.v).Vs = a.entry.Vs
            /\ FrameAfter(a.v).Ts = a.entry.Ts

PredicatesLookAhead == [][PredicateStep]_vars

\* Apd over a token that matched: no length, no error, no token kept.
PredicatesLookAheadWitness ==
    /\ Returned
    /\ ret.o = Apd(Tok(Lit(<<"a">>)))
    /\ ret.err = NilErr
    /\ ret.l = 0
    /\ Frame(Now, ret.v).Ts = <<>>
    /\ Frame(Now, ret.v).Vs = <<"v">>

(***************************************************************************)
(* C5.  Option.  Opt calls its child once, at p, and returns when the      *)
(* child does, never with an error.  When the child failed, Opt returns    *)
(* length 0 and the frame's Vs and Ts and c.errorPos are what they were at *)
(* entry to Opt; when it matched, Opt returns the child's length.          *)
(***************************************************************************)
OptionStep ==
    Running("Opt") =>
        LET a == Top
        IN  IF a.pc = "start"
            THEN Calls(a.o.opes[1], a.p)
            ELSE /\ ret.o = a.o.opes[1] /\ ret.p = a.p
                 /\ Returns
                 /\ ret'.err = NilErr
                 /\ IF ret.err # NilErr
                    THEN /\ ret'.l = 0
                         /\ FrameAfter(a.v).Vs = a.entry.Vs
                         /\ FrameAfter(a.v).Ts = a.entry.Ts
                         /\ c'.errorPos = a.entry.errorPos
                    ELSE ret'.l = ret.l

OptionRestores == [][OptionStep]_vars

\* On "aa" the child captured the token "a" and moved errorPos to 1 before
\* it failed; Opt has returned with both undone.
OptionRestoresWitness ==
    /\ Done
    /\ ret.o = Opt(SeqCore(<<Tok(Lit(<<"a">>)), Lit(<<"b">>)>>))
    /\ s = <<"a", "a">>
    /\ ret.p = 0
    /\ ret.l = 0
    /\ ret.err = NilErr
    /\ sv.Ts = <<>>
    /\ c.errorPos = 0

(***************************************************************************)
(* C6.  A Sequence that fails returns length 0 and leaves the Vs and Ts of *)
(* the frame as they were when the Sequence started.                       *)
(***************************************************************************)
FailedSequenceContributesNothing ==
    Returned /\ ret.o.kind = "Seq" /\ ret.err # NilErr =>
        /\ ret.l = 0
        /\ Frame(Now, ret.v).Vs = ret.entry.Vs
        /\ Frame(Now, ret.v).Ts = ret.entry.Ts

(***************************************************************************)
(* C7.  Repetition is greedy.  Zom and Oom call the child again where the  *)
(* last match ended for as long as the child succeeds and input is left,   *)
(* and return the sum of the matched lengths at the first failure or at    *)
(* the end of the input.  Zom never returns an error and tries nothing at  *)
(* the end of the input; Oom returns an error exactly when its first       *)
(* attempt, at p, fails, and the error is the child's.  For a terminal     *)
(* child and no whitespace skipping, the length is that of the longest run *)
(* of matches, computed here from the input alone.                         *)
(***************************************************************************)
\* The length a terminal matches at q, or -1 (the one class is [a-b]).
Once(x, q) ==
    CASE x.kind = "Lit" ->
             IF q + Len(x.str) <= Len(s) /\ SubSeq(s, q + 1, q + Len(x.str)) = x.str
             THEN Len(x.str) ELSE -1
      [] x.kind = "Cls" ->
             IF q < Len(s) /\ s[q + 1] \in {"a", "b"} THEN 1 ELSE -1
      [] x.kind = "Dot" -> IF q < Len(s) THEN 1 ELSE -1

\* The length of the longest run of matches of x that starts at q.
RECURSIVE Run(_, _)
Run(x, q) ==
    IF q < Len(s) /\ Once(x, q) > 0 THEN Once(x, q) + Run(x, q + Once(x, q)) ELSE 0

Plain(a) == a.o.opes[1] \in Terminals /\ (c.whitespaceOpe = NilOpe \/ c.inToken)

\* The head of the loop with l bytes matched: one more call, or the return.
LoopStep(a, l) ==
    IF a.p + l < Len(s)
    THEN Calls(a.o.opes[1], a.p + l)
    ELSE /\ Returns /\ ret'.l = l /\ ret'.err = NilErr
         /\ Plain(a) => l = Run(a.o.opes[1], a.p)

\* The child failed in the loop: l bytes were matched before.
StopStep(a, l) ==
    /\ Returns /\ ret'.l = l /\ ret'.err = NilErr
    /\ Plain(a) => l = Run(a.o.opes[1], a.p)

RepetitionStep ==
    /\ Running("Zom") =>
          LET a == Top
          IN  IF a.pc = "start" THEN LoopStep(a, 0)
              ELSE IF ret.err # NilErr THEN StopStep(a, a.l)
              ELSE LoopStep(a, a.l + ret.l)
    /\ Running("Oom") =>
          LET a == Top
          IN  CASE a.pc = "start" -> Calls(a.o.opes[1], a.p)
                [] a.pc = "first" ->
                       IF ret.err # NilErr
                       THEN Returns /\ ret'.err = ret.err /\ ret'.l = 0
                       ELSE LoopStep(a, ret.l)
                [] a.pc = "loop" ->
                       IF ret.err # NilErr THEN StopStep(a, a.l)
                       ELSE LoopStep(a, a.l + ret.l)

RepetitionGreedy == [][RepetitionStep]_vars

\* Zom(Lit("a")) on "aab": two matches, then the failure at "b".
RepetitionGreedyWitness ==
    /\ Done
    /\ ret.o = Zom(Lit(<<"a">>))
    /\ s = <<"a", "a", "b">>
    /\ ret.p = 0
    /\ ret.l = 2
    /\ ret.err = NilErr

(***************************************************************************)
(* C8.  Ignore returns the length and the error of its child, called at    *)
(* the same position, and leaves the Vs and Ts of the frame it was called  *)
(* on as they were before the call.                                        *)
(***************************************************************************)
IgnoreStep ==
    Running("Ign") =>
        LET a == Top
        IN  IF a.pc = "start"
            THEN Calls(a.o.opes[1], a.p)
            ELSE /\ ret.o = a.o.opes[1] /\ ret.p = a.p
                 /\ Returns
                 /\ ret'.l = ret.l
                 /\ ret'.err = ret.err
                 /\ FrameAfter(a.v).Vs = a.entry.Vs
                 /\ FrameAfter(a.v).Ts = a.entry.Ts

\* The body of NUMBER on "ab ": the digits and the blank are consumed, and
\* the ignored blanks add no value.
NumberStep ==
    Resumed("Seq") /\ Top.o = NUMBER /\ s = <<"a", "b", " ">> /\ Top.p = 0 /\ Returns =>
        /\ ret'.err = NilErr
        /\ ret'.l = 3
        /\ FrameAfter(Top.v).Vs = Top.entry.Vs

IgnoreDropsValues == [][IgnoreStep /\ NumberStep]_vars

\* Ign over a token that matched: the length is returned, the token is not kept.
IgnoreDropsValuesWitness ==
    /\ Done
    /\ ret.o = Ign(Tok(Lit(<<"a">>)))
    /\ ret.err = NilErr
    /\ ret.l = 1
    /\ sv.Ts = <<>>
    /\ sv.Vs = <<"v">>

(***************************************************************************)
(* C9, as claimed.  When the child fails in an iteration of the loop of    *)
(* Zom or Oom, the frame's Vs and Ts and c.errorPos are all put back to    *)
(* what they were just before that iteration (the child's call).           *)
(***************************************************************************)
IterationSnapshotStep ==
    (Resumed("Zom") \/ (Resumed("Oom") /\ Top.pc = "loop")) /\ ret.err # NilErr =>
        /\ FrameAfter(Top.v).Vs = ret.entry.Vs
        /\ FrameAfter(Top.v).Ts = ret.entry.Ts
        /\ c'.errorPos = ret.entry.errorPos

IterationSnapshotRestored == [][IterationSnapshotStep]_vars

(***************************************************************************)
(* C9, amended.  When the child fails in an iteration of the loop, the     *)
(* frame's Vs and Ts are put back to what they were just before that       *)
(* iteration, and c.errorPos to what it was before the loop: at entry to   *)
(* Zom, and in Oom when the first match returned (a value the loop never   *)
(* changes).                                                               *)
(***************************************************************************)
LoopSnapshotStep ==
    /\ (Resumed("Zom") \/ (Resumed("Oom") /\ Top.pc = "loop")) /\ ret.err # NilErr =>
          /\ FrameAfter(Top.v).Vs = ret.entry.Vs
          /\ FrameAfter(Top.v).Ts = ret.entry.Ts
          /\ c'.errorPos = Top.saveErrorPos
    /\ Resumed("Zom") => Top.saveErrorPos = Top.entry.errorPos
    /\ Resumed("Oom") /\ Top.pc = "first" /\ ret.err = NilErr /\ ~Returns =>
          stack'[Len(stack)].saveErrorPos = c.errorPos
    /\ Resumed("Oom") /\ Top.pc = "loop" /\ ~Returns =>
          stack'[Len(stack)].saveErrorPos = Top.saveErrorPos

LoopSnapshotRestored == [][LoopSnapshotStep]_vars

\* Zom(Cho(Lit("b"), Lit("a"))) on "aa " from 1: the match at 1 moved errorPos
\* to 1, the failure at 2 put it back to 0.
LoopSnapshotRestoredWitness ==
    /\ Done
    /\ ret.o = Zom(ChoCore(<<Lit(<<"b">>), Lit(<<"a">>)>>))
    /\ s = <<"a", "a", " ">>
    /\ ret.p = 1
    /\ ret.l = 1
    /\ c.errorPos = 0

(***************************************************************************)
(* C10.  Token Boundary restores inToken: when Tok returns, c.inToken is   *)
(* what it was when Tok was called, and c.inToken is true for as long as   *)
(* the child of a Tok is being evaluated.                                  *)
(***************************************************************************)
InTokenRestored ==
    /\ Returned /\ ret.o.kind = "Tok" => c.inToken = ret.entry.inToken
    /\ \A k \in 1 .. Len(stack) - 1 :
          stack[k].o.kind = "Tok" /\ stack[k].pc = "child" => c.inToken

(***************************************************************************)
(* C11.  Every evaluation terminates: the outermost parse call eventually  *)
(* returns, for every enumerated tree (the repetitions over a child that   *)
(* can succeed without consuming input included), input and position.      *)
(***************************************************************************)
EvaluationTerminates == <>Done

====
